---- MODULE Spec2Model ----
(***************************************************************************)
(* NDFileFITS: the FITS file writer plugin of ADCore.                      *)
(*                                                                         *)
(* The state is the writer's file handle (pFits), the files the FITS      *)
(* library holds open, the heap buffers the handlers allocated and did not *)
(* free, and a record of the last handler call: its arguments, its return  *)
(* value, its local status when it returned, and the library calls it made *)
(* (fits_create_file, fits_create_img, fits_write_key, fits_write_img).    *)
(* Each handler (openFile, writeFile, readFile,          *)
(* closeFile) is one action.  What the library and malloc answer is an     *)
(* input of the action.                                                    *)
(***************************************************************************)
EXTENDS Integers, Sequences, FiniteSets

VARIABLES pFits, openHandles, naxesLive, scratchLive, call, ret, status, created, img, cards,
          payload

vars ==
    <<pFits, openHandles, naxesLive, scratchLive, call, ret, status, created, img, cards, payload>>

(***************************************************************************)
(* Bounds of the model.                                                    *)
(***************************************************************************)
\* Largest rank of an array.
MaxRank == 4
\* Largest size of one axis.
MaxDim == 2
\* Largest number of elements of an array.
MaxElems == 4
\* Largest number of files the library holds open at once.
MaxHandles == 2
\* Largest number of heap buffers of one kind left allocated.
MaxLive == 1
\* Largest number of attributes in an attribute list.
MaxAttrs == 2

(***************************************************************************)
(* Constants of the program.                                               *)
(***************************************************************************)
STRING_BUFFER_SIZE == 81

\* pFits = NULL
NULL == 0

asynSuccess == "asynSuccess"
asynError == "asynError"

\* NDDataType_t: the eight sample types the switches name, and one the switches do not name.
SupportedDataTypes ==
    {"NDInt8", "NDUInt8", "NDInt16", "NDUInt16", "NDInt32", "NDUInt32", "NDFloat32", "NDFloat64"}

NDDataTypes == SupportedDataTypes \cup {"NDOther"}

\* NDAttrDataType_t: the types the attribute switch names, and one it does not name.
CardAttrTypes ==
    {"NDAttrInt8", "NDAttrUInt8", "NDAttrInt16", "NDAttrUInt16", "NDAttrInt32", "NDAttrUInt32",
     "NDAttrFloat32", "NDAttrFloat64", "NDAttrString"}

NDAttrDataTypes == CardAttrTypes \cup {"NDAttrUndefined", "NDAttrOther"}

(***************************************************************************)
(* Arrays.  dims is the sequence of axis sizes (dims[1] is the code's      *)
(* dims[0]); pData is the sample buffer, indexed from 0 as in the code;    *)
(* pAttributeList is <<>> for a NULL pointer and <<list>> otherwise.       *)
(***************************************************************************)
RECURSIVE Product(_)
Product(s) == IF s = <<>> THEN 1 ELSE Head(s) * Product(Tail(s))

\* nElements of writeFile: the product of the axis sizes.
NElements(pArray) == Product(pArray.dims)

Shapes ==
    {s \in UNION {[1..r -> 1..MaxDim] : r \in 0..MaxRank} : Product(s) <= MaxElems}

\* The samples of a buffer of n elements: all different, so that a sample in
\* the wrong place shows.
Samples(n) == [i \in 0..(n - 1) |-> i + 1]

\* What a sample of a buffer that was allocated and not written may hold.
Stale == {0, 1}

NDArray(dims, dataType, attrs) ==
    [ndims |-> Len(dims), dims |-> dims, dataType |-> dataType,
     pData |-> Samples(Product(dims)), pAttributeList |-> attrs]

(***************************************************************************)
(* The type tables of the two switches.                                    *)
(***************************************************************************)
\* openFile: the bitpix code handed to fits_create_img.
ImgType(dataType) ==
    CASE dataType = "NDInt8" -> "SBYTE_IMG"
      [] dataType = "NDUInt8" -> "BYTE_IMG"
      [] dataType = "NDInt16" -> "SHORT_IMG"
      [] dataType = "NDUInt16" -> "USHORT_IMG"
      [] dataType = "NDInt32" -> "LONG_IMG"
      [] dataType = "NDUInt32" -> "ULONG_IMG"
      [] dataType = "NDFloat32" -> "FLOAT_IMG"
      [] dataType = "NDFloat64" -> "DOUBLE_IMG"

\* PixelType with the signed byte written as the attribute switch writes it.
PixelTypeByte(dataType) ==
    CASE dataType = "NDInt8" -> "TBYTE"
      [] dataType = "NDUInt8" -> "TBYTE"
      [] dataType = "NDInt16" -> "TSHORT"
      [] dataType = "NDUInt16" -> "TUSHORT"
      [] dataType = "NDInt32" -> "TINT"
      [] dataType = "NDUInt32" -> "TUINT"
      [] dataType = "NDFloat32" -> "TFLOAT"
      [] dataType = "NDFloat64" -> "TDOUBLE"

\* writeFile: the datatype code handed to fits_write_img.
PixelType(dataType) ==
    CASE dataType = "NDInt8" -> "TSBYTE"
      [] dataType = "NDUInt8" -> "TBYTE"
      [] dataType = "NDInt16" -> "TSHORT"
      [] dataType = "NDUInt16" -> "TUSHORT"
      [] dataType = "NDInt32" -> "TINT"
      [] dataType = "NDUInt32" -> "TUINT"
      [] dataType = "NDFloat32" -> "TFLOAT"
      [] dataType = "NDFloat64" -> "TDOUBLE"

(***************************************************************************)
(* writeFile: the copy into the scratch buffer.                            *)
(***************************************************************************)
\* w, h, d of writeFile.
FlipGeometry(pArray) ==
    IF pArray.ndims > 3 THEN [w |-> 1, h |-> 1, d |-> 1]
    ELSE IF pArray.ndims = 3
        THEN [w |-> pArray.dims[1], h |-> pArray.dims[2], d |-> pArray.dims[3]]
    ELSE IF pArray.ndims = 2 THEN [w |-> pArray.dims[1], h |-> pArray.dims[2], d |-> 1]
    ELSE IF pArray.ndims = 1 THEN [w |-> pArray.dims[1], h |-> 1, d |-> 1]
    ELSE [w |-> 0, h |-> 0, d |-> 0]

\* DstIndex without the flip of the row.
DstIndexNoFlip(w, h, x, y, z) == z * (w * h) + y * w + x

\* The index written and the index read by one pass of the inner loop.
DstIndex(w, h, x, y, z) == z * (w * h) + (h - 1 - y) * w + x

SrcIndex(w, h, x, y, z) == z * (w * h) + y * w + x

\* The passes of the loop nest in the order the code makes them: z outermost,
\* then x, then y.  Pass k (from 0) has z = k \div (w*h), x = (k % (w*h)) \div h,
\* y = k % h.
LoopPasses(g) ==
    [k \in 1..(g.w * g.h * g.d) |->
        LET z == (k - 1) \div (g.w * g.h)
            x == ((k - 1) % (g.w * g.h)) \div g.h
            y == (k - 1) % g.h
        IN [dst |-> DstIndex(g.w, g.h, x, y, z), src |-> SrcIndex(g.w, g.h, x, y, z)]]

\* pDst after the first k passes, from the allocated buffer's content pOut.
RECURSIVE CopyLoop(_, _, _, _)
CopyLoop(pOut, pSrc, passes, k) ==
    IF k = 0 THEN pOut
    ELSE LET before == CopyLoop(pOut, pSrc, passes, k - 1)
         IN [before EXCEPT ![passes[k].dst] = pSrc[passes[k].src]]

\* The elements of the scratch buffer that no pass writes.
Unwritten(pArray) ==
    LET passes == LoopPasses(FlipGeometry(pArray))
    IN {i \in 0..(NElements(pArray) - 1) : \A k \in DOMAIN passes : passes[k].dst # i}

\* What malloc may hand back: any content.  Only the elements no pass writes
\* are enumerated; the others are overwritten whatever they held.
FreshBuffers(pArray) ==
    LET unwritten == Unwritten(pArray)
        n == NElements(pArray)
    IN {[i \in 0..(n - 1) |-> IF i \in unwritten THEN u[i] ELSE 0] : u \in [unwritten -> Stale]}

(***************************************************************************)
(* The state after construction: no file, nothing allocated, no call yet.  *)
(***************************************************************************)
NoArray == <<>>

Init ==
    /\ pFits = NULL
    /\ openHandles = {}
    /\ naxesLive = 0
    /\ scratchLive = 0
    /\ call = [op |-> "none", openMode |-> {}, pArray |-> NoArray]
    /\ ret = asynSuccess
    /\ status = 0
    /\ created = FALSE
    /\ img = <<>>
    /\ cards = <<>>
    /\ payload = <<>>

(***************************************************************************)
(* writeFile(pArray).  mallocOk: whether malloc returns a buffer; fresh:   *)
(* the buffer's content; imgStatus: what fits_write_img leaves in status   *)
(* (nonzero on a NULL handle).                                             *)
(***************************************************************************)
writeFile(pArray, mallocOk, fresh, imgStatus) ==
    /\ pFits = NULL => imgStatus > 0
    /\ call' = [op |-> "writeFile", openMode |-> {}, pArray |-> <<pArray>>]
    /\ created' = FALSE
    /\ img' = <<>>
    /\ cards' = <<>>
    /\ UNCHANGED <<pFits, openHandles, naxesLive>>
    /\ IF ~mallocOk
        THEN /\ ret' = asynError
             /\ status' = 0
             /\ payload' = <<>>
             /\ UNCHANGED scratchLive
        ELSE IF pArray.dataType \in SupportedDataTypes
            THEN LET passes == LoopPasses(FlipGeometry(pArray))
                     pOut == CopyLoop(fresh, pArray.pData, passes, Len(passes))
                 IN /\ payload' = <<[datatype |-> PixelType(pArray.dataType),
                                     firstelem |-> 1,
                                     nelements |-> NElements(pArray),
                                     array |-> pOut]>>
                    /\ UNCHANGED scratchLive
                    /\ status' = imgStatus
                    /\ ret' = IF imgStatus > 0 THEN asynError ELSE asynSuccess
            ELSE /\ scratchLive < MaxLive
                 /\ scratchLive' = scratchLive + 1
                 /\ status' = 0
                 /\ payload' = <<>>
                 /\ ret' = asynError

(***************************************************************************)
(* readFile: not implemented.                                              *)
(***************************************************************************)
readFile ==
    /\ call' = [op |-> "readFile", openMode |-> {}, pArray |-> NoArray]
    /\ ret' = asynError
    /\ status' = 0
    /\ created' = FALSE
    /\ img' = <<>>
    /\ cards' = <<>>
    /\ payload' = <<>>
    /\ UNCHANGED <<pFits, openHandles, naxesLive, scratchLive>>

(***************************************************************************)
(* closeFile.  fits_close_file releases the handle whatever status it      *)
(* reports; on a NULL handle it only reports an error.                     *)
(***************************************************************************)
\* closeFile returning the error fits_close_file reports.
closeFilePropagates(closeStatus) ==
    /\ pFits = NULL => closeStatus > 0
    /\ call' = [op |-> "closeFile", openMode |-> {}, pArray |-> NoArray]
    /\ openHandles' = openHandles \ {pFits}
    /\ pFits' = NULL
    /\ status' = closeStatus
    /\ ret' = IF closeStatus > 0 THEN asynError ELSE asynSuccess
    /\ created' = FALSE
    /\ img' = <<>>
    /\ cards' = <<>>
    /\ payload' = <<>>
    /\ UNCHANGED <<naxesLive, scratchLive>>

closeFile(closeStatus) ==
    /\ pFits = NULL => closeStatus > 0
    /\ call' = [op |-> "closeFile", openMode |-> {}, pArray |-> NoArray]
    /\ openHandles' = openHandles \ {pFits}
    /\ pFits' = NULL
    /\ status' = closeStatus
    /\ ret' = asynSuccess
    /\ created' = FALSE
    /\ img' = <<>>
    /\ cards' = <<>>
    /\ payload' = <<>>
    /\ UNCHANGED <<naxesLive, scratchLive>>

(***************************************************************************)
(* Attributes.  A value is an integer; the value of a string attribute is  *)
(* its length in bytes.                                                    *)
(***************************************************************************)
AttrNames == {"A", "B"}

\* The values an attribute of each type takes here: ends of the type's range
\* (of the 32-bit types, values that fit TLC's integers).
AttrValues(dataType) ==
    CASE dataType = "NDAttrInt8" -> {-1, 1}
      [] dataType = "NDAttrUInt8" -> {255}
      [] dataType = "NDAttrInt16" -> {-1}
      [] dataType = "NDAttrUInt16" -> {65535}
      [] dataType = "NDAttrInt32" -> {-1}
      [] dataType = "NDAttrUInt32" -> {2147483647}
      [] dataType = "NDAttrFloat32" -> {1}
      [] dataType = "NDAttrFloat64" -> {1}
      [] dataType = "NDAttrString" -> {3, STRING_BUFFER_SIZE}
      [] OTHER -> {0}

Attributes ==
    UNION {[name : AttrNames, description : {"d"}, dataType : {t}, value : AttrValues(t)] :
        t \in NDAttrDataTypes}

\* The attribute lists: the names of a list are all different.
AttributeLists ==
    {l \in UNION {[1..n -> Attributes] : n \in 0..MaxAttrs} :
        \A i, j \in DOMAIN l : l[i].name = l[j].name => i = j}

\* The datatype code handed to fits_write_key.
KeyType(dataType) ==
    CASE dataType \in {"NDAttrInt8", "NDAttrUInt8"} -> "TBYTE"
      [] dataType = "NDAttrInt16" -> "TSHORT"
      [] dataType = "NDAttrUInt16" -> "TUSHORT"
      [] dataType = "NDAttrInt32" -> "TINT"
      [] dataType = "NDAttrUInt32" -> "TUINT"
      [] dataType = "NDAttrFloat32" -> "TFLOAT"
      [] dataType = "NDAttrFloat64" -> "TDOUBLE"
      [] dataType = "NDAttrString" -> "TSTRING"

\* An integer read back as unsigned, or as signed, of the given width.
AsUnsigned(v, bits) == v % (2 ^ bits)

AsSigned(v, bits) ==
    IF AsUnsigned(v, bits) >= 2 ^ (bits - 1)
        THEN AsUnsigned(v, bits) - 2 ^ bits
        ELSE AsUnsigned(v, bits)

\* What pAttribute->getValue leaves in the value handed to fits_write_key: the
\* attribute's value; of a string, at most sizeof(attrString)-1 bytes.
GetValue(attr) ==
    IF attr.dataType = "NDAttrString"
        THEN IF attr.value < STRING_BUFFER_SIZE - 1 THEN attr.value ELSE STRING_BUFFER_SIZE - 1
        ELSE attr.value

\* The value fits_write_key reads through the pointer, by the datatype code:
\* TBYTE reads an unsigned char, TSHORT a short, TUSHORT an unsigned short; the
\* wider codes read back what getValue stored.
KeyValue(datatype, v) ==
    CASE datatype = "TBYTE" -> AsUnsigned(v, 8)
      [] datatype = "TSHORT" -> AsSigned(v, 16)
      [] datatype = "TUSHORT" -> AsUnsigned(v, 16)
      [] OTHER -> v

\* fits_write_key: with status already nonzero it does nothing; else it writes
\* the card, or fails and sets status.
fits_write_key(written, datatype, keyname, v, comm, st, fails) ==
    IF st > 0 THEN [status |-> st, cards |-> written]
    ELSE IF fails THEN [status |-> 1, cards |-> written]
    ELSE [status |-> 0,
          cards |-> Append(written, [keyname |-> keyname, datatype |-> datatype,
                                     value |-> KeyValue(datatype, v), comm |-> comm])]

\* The loop over the attribute list, from attribute i on.  keyFailAt is the
\* position of the attribute whose fits_write_key fails (0: none fails).
RECURSIVE AttrLoop(_, _, _, _, _)
AttrLoop(attrs, i, st, written, keyFailAt) ==
    IF i > Len(attrs) THEN [status |-> st, cards |-> written, aborted |-> FALSE]
    ELSE IF attrs[i].dataType \in CardAttrTypes
        THEN LET r == fits_write_key(written, KeyType(attrs[i].dataType), attrs[i].name,
                                     GetValue(attrs[i]), attrs[i].description, st,
                                     keyFailAt = i)
             IN AttrLoop(attrs, i + 1, r.status, r.cards, keyFailAt)
    ELSE IF attrs[i].dataType = "NDAttrUndefined"
        THEN AttrLoop(attrs, i + 1, st, written, keyFailAt)
    ELSE [status |-> st, cards |-> written, aborted |-> TRUE]

(***************************************************************************)
(* openFile(fileName, openMode, pArray).  createStatus: what               *)
(* fits_create_file leaves in status; mallocOk: whether malloc returns the *)
(* axis buffer; imgStatus: what fits_create_img leaves in status;          *)
(* keyFailAt: which fits_write_key fails.                                  *)
(***************************************************************************)
\* The handle fits_create_file returns: one the library does not hold.
NewHandle == CHOOSE h \in 1..MaxHandles : h \notin openHandles

\* ModeSupported without the test of the append bit.
ModeSupportedNoAppendTest(openMode) == "NDFileModeRead" \notin openMode

\* The mode passes the two tests: neither the read bit nor the append bit is set.
ModeSupported(openMode) ==
    /\ "NDFileModeRead" \notin openMode
    /\ "NDFileModeAppend" \notin openMode

\* openFile returns r with st in its local status.
OpenReturns(r, st) ==
    /\ ret' = r
    /\ status' = st
    /\ payload' = <<>>

openFile(openMode, pArray, createStatus, mallocOk, imgStatus, keyFailAt) ==
    /\ call' = [op |-> "openFile", openMode |-> openMode, pArray |-> <<pArray>>]
    /\ IF ~ModeSupported(openMode)
        THEN /\ OpenReturns(asynError, 0)
             /\ created' = FALSE
             /\ img' = <<>>
             /\ cards' = <<>>
             /\ UNCHANGED <<pFits, openHandles, naxesLive, scratchLive>>
        ELSE IF createStatus > 0
        THEN \* fits_create_file clears the handle before it tries
             /\ pFits' = NULL
             /\ OpenReturns(asynError, createStatus)
             /\ created' = FALSE
             /\ img' = <<>>
             /\ cards' = <<>>
             /\ UNCHANGED <<openHandles, naxesLive, scratchLive>>
        ELSE /\ Cardinality(openHandles) < MaxHandles
             /\ pFits' = NewHandle
             /\ openHandles' = openHandles \cup {NewHandle}
             /\ created' = TRUE
             /\ UNCHANGED scratchLive
             /\ IF pArray.ndims = 0 \/ ~mallocOk
                 THEN /\ OpenReturns(asynError, 0)
                      /\ img' = <<>>
                      /\ cards' = <<>>
                      /\ UNCHANGED naxesLive
                 ELSE IF pArray.dataType \notin SupportedDataTypes
                 THEN /\ naxesLive < MaxLive
                      /\ naxesLive' = naxesLive + 1
                      /\ OpenReturns(asynError, 0)
                      /\ img' = <<>>
                      /\ cards' = <<>>
                 ELSE /\ UNCHANGED naxesLive
                      /\ img' = <<[bitpix |-> ImgType(pArray.dataType),
                                   naxis |-> pArray.ndims,
                                   naxes |-> [i \in 1..pArray.ndims |-> pArray.dims[i]]]>>
                      /\ IF pArray.pAttributeList = <<>>
                          THEN /\ cards' = <<>>
                               /\ OpenReturns(asynSuccess, imgStatus)
                          ELSE LET r == AttrLoop(pArray.pAttributeList[1], 1, imgStatus,
                                                 <<>>, keyFailAt)
                               IN /\ cards' = r.cards
                                  /\ OpenReturns(IF r.aborted \/ r.status > 0
                                                    THEN asynError ELSE asynSuccess,
                                                 r.status)

(***************************************************************************)
(* The calls of the host.  Spec: the four handlers in any order, with every *)
(* answer of the library and of malloc, on a few arrays.                   *)
(***************************************************************************)
Status == {0, 1}

\* The open modes: the bits of NDFileOpenMode_t that are set (the fourth bit,
\* NDFileModeMultiple, is never read).
OpenModes == SUBSET {"NDFileModeRead", "NDFileModeWrite", "NDFileModeAppend"}

LifeAttributeLists ==
    {<<>>,
     <<<<>>>>,
     <<<<[name |-> "A", description |-> "d", dataType |-> "NDAttrInt32", value |-> -1]>>>>,
     <<<<[name |-> "A", description |-> "d", dataType |-> "NDAttrOther", value |-> 0]>>>>}

LifeArrays ==
    {NDArray(s, t, l) : s \in {<<>>, <<2>>}, t \in {"NDInt8", "NDOther"}, l \in LifeAttributeLists}

Next ==
    \/ \E m \in OpenModes, a \in LifeArrays, cs \in Status, ok \in BOOLEAN, is \in Status,
          k \in 0..1 :
            openFile(m, a, cs, ok, is, k)
    \/ \E a \in LifeArrays, ok \in BOOLEAN, st \in Status :
        \E fresh \in FreshBuffers(a) : writeFile(a, ok, fresh, st)
    \/ readFile
    \/ \E st \in Status : closeFile(st)

Spec == Init /\ [][Next]_vars

(***************************************************************************)
(* SpecImage: arrays of every shape and supported sample type, without     *)
(* attributes, in the host's cycle: opened when no file is open, written   *)
(* and closed when one is; the library and malloc succeed.                 *)
(***************************************************************************)
ImageArrays == {NDArray(s, t, <<>>) : s \in Shapes, t \in SupportedDataTypes}

NextImage ==
    \/ /\ pFits = NULL
       /\ \E a \in ImageArrays : openFile({"NDFileModeWrite"}, a, 0, TRUE, 0, 0)
    \/ /\ pFits # NULL
       /\ \E a \in ImageArrays : \E fresh \in FreshBuffers(a) : writeFile(a, TRUE, fresh, 0)
    \/ /\ pFits # NULL
       /\ closeFile(0)

SpecImage == Init /\ [][NextImage]_vars

(***************************************************************************)
(* SpecAttr: one array with every attribute list, opened when no file is   *)
(* open and closed when one is; fits_create_img and any one fits_write_key *)
(* may fail.                                                               *)
(***************************************************************************)
AttrArrays == {NDArray(<<2, 2>>, "NDInt16", <<l>>) : l \in AttributeLists}

NextAttr ==
    \/ /\ pFits = NULL
       /\ \E a \in AttrArrays, is \in Status, k \in 0..MaxAttrs :
            openFile({"NDFileModeWrite"}, a, 0, TRUE, is, k)
    \/ /\ pFits # NULL
       /\ closeFile(0)

SpecAttr == Init /\ [][NextAttr]_vars

(***************************************************************************)
(* Properties.                                                             *)
(***************************************************************************)
\* The array of the last call, when it took one.
LastArray == call.pArray[1]

Wrote == call.op = "writeFile" /\ payload # <<>>

Opened == call.op = "openFile"

\* C1: for an array of rank 4 or more of a supported sample type, the payload
\* writeFile hands to fits_write_img equals the source buffer element for
\* element.
C1_HighRankPayloadIsSource ==
    (Wrote /\ LastArray.ndims >= 4 /\ LastArray.dataType \in SupportedDataTypes) =>
        \A i \in 0..(NElements(LastArray) - 1) : payload[1].array[i] = LastArray.pData[i]

\* C2: no scratch buffer of writeFile remains allocated after any number of
\* calls: it is freed on every path that returns.
C2_NoScratchLeft == scratchLive = 0

\* C3: whenever openFile returns an error, the writer holds no file handle.
C3_FailedOpenIsIdle == (Opened /\ ret = asynError) => pFits = NULL

\* C4: whenever a library step of openFile (fits_create_file, fits_create_img,
\* fits_write_key) reports a nonzero status, openFile returns an error, with
\* and without an attribute list.
C4_BackendFailureIsError == (Opened /\ status > 0) => ret = asynError

\* C5: for a 2D or 3D array, with w = dims[0], h = dims[1], d = dims[2] or 1,
\* output[z*w*h + (h-1-y)*w + x] = input[z*w*h + y*w + x] for every x, y, z, and
\* every output element is assigned exactly once.
C5_VerticalFlip ==
    (Wrote /\ LastArray.ndims \in {2, 3}) =>
        LET w == LastArray.dims[1]
            h == LastArray.dims[2]
            d == IF LastArray.ndims = 3 THEN LastArray.dims[3] ELSE 1
            out == payload[1].array
            passes == LoopPasses(FlipGeometry(LastArray))
        IN /\ DOMAIN out = 0..(w * h * d - 1)
           /\ \A x \in 0..(w - 1), y \in 0..(h - 1), z \in 0..(d - 1) :
                out[z * w * h + (h - 1 - y) * w + x] = LastArray.pData[z * w * h + y * w + x]
           /\ \A i \in 0..(w * h * d - 1) :
                Cardinality({k \in DOMAIN passes : passes[k].dst = i}) = 1

\* C5 witness: a 3D array of two slices of two rows was written, and the
\* payload differs from the source.
C5_Witness ==
    /\ Wrote
    /\ ret = asynSuccess
    /\ LastArray.dims = <<1, 2, 2>>
    /\ payload[1].array = [i \in 0..3 |-> IF i = 0 THEN 2 ELSE IF i = 1 THEN 1
                                          ELSE IF i = 2 THEN 4 ELSE 3]

\* C6: openFile with the read bit or the append bit set returns an error,
\* creates no file and leaves the handle as it was.
C6_BadModeChangesNothing ==
    [][(call'.op = "openFile"
        /\ ("NDFileModeRead" \in call'.openMode \/ "NDFileModeAppend" \in call'.openMode))
       => /\ ret' = asynError
          /\ created' = FALSE
          /\ pFits' = pFits
          /\ openHandles' = openHandles]_vars

\* C6 witness: openFile was called with the append bit alone while a file was
\* open.
C6_Witness ==
    /\ Opened
    /\ call.openMode = {"NDFileModeAppend"}
    /\ ret = asynError
    /\ pFits # NULL

\* What C7 says of the cards of a list: one card for each attribute of a type
\* of CardAttrTypes, before the first attribute of a type the switch does not
\* name, with the attribute's name, value and description (of a string, the
\* bytes the buffer holds).
RECURSIVE ClaimedCards(_)
ClaimedCards(attrs) ==
    IF attrs = <<>> THEN <<>>
    ELSE IF Head(attrs).dataType \in CardAttrTypes
        THEN <<[keyname |-> Head(attrs).name,
                value |-> IF Head(attrs).dataType = "NDAttrString"
                              /\ Head(attrs).value > STRING_BUFFER_SIZE - 1
                            THEN STRING_BUFFER_SIZE - 1 ELSE Head(attrs).value,
                comm |-> Head(attrs).description]>> \o ClaimedCards(Tail(attrs))
    ELSE IF Head(attrs).dataType = "NDAttrUndefined" THEN ClaimedCards(Tail(attrs))
    ELSE <<>>

\* C7: with an attribute list, openFile writes the cards C7 says, in list
\* order, and returns an error exactly when the list holds an attribute of a
\* type the switch does not name.  Stated where no library step failed.
C7_CardsAreAttributes ==
    (Opened /\ img # <<>> /\ status = 0 /\ LastArray.pAttributeList # <<>>) =>
        LET attrs == LastArray.pAttributeList[1]
        IN /\ [i \in DOMAIN cards |->
                  [keyname |-> cards[i].keyname, value |-> cards[i].value,
                   comm |-> cards[i].comm]] = ClaimedCards(attrs)
           /\ (ret = asynError) <=> (\E i \in DOMAIN attrs : attrs[i].dataType = "NDAttrOther")

\* C8: closeFile can be called in every state, returns success and leaves the
\* handle NULL, whatever fits_close_file reports.
C8_CloseSucceedsAndClears ==
    /\ \E st \in Status : ENABLED closeFile(st)
    /\ call.op = "closeFile" => (ret = asynSuccess /\ pFits = NULL)

\* C8 witness: closeFile was called and fits_close_file reported an error.
C8_Witness == call.op = "closeFile" /\ status > 0

\* The table of C9: sample type, bit-depth code, pixel transfer code.
ClaimedTable ==
    [NDInt8 |-> <<"SBYTE_IMG", "TSBYTE">>,
     NDUInt8 |-> <<"BYTE_IMG", "TBYTE">>,
     NDInt16 |-> <<"SHORT_IMG", "TSHORT">>,
     NDUInt16 |-> <<"USHORT_IMG", "TUSHORT">>,
     NDInt32 |-> <<"LONG_IMG", "TINT">>,
     NDUInt32 |-> <<"ULONG_IMG", "TUINT">>,
     NDFloat32 |-> <<"FLOAT_IMG", "TFLOAT">>,
     NDFloat64 |-> <<"DOUBLE_IMG", "TDOUBLE">>]

\* C9: for each supported sample type T, openFile creates the image with the
\* axis sizes dims[0..ndims-1] in order and the bit-depth code of T's row, and
\* writeFile uses the transfer code of the same row and an element count equal
\* to the product of the dims.
C9_TypeTable ==
    /\ (Opened /\ LastArray.ndims > 0 /\ LastArray.dataType \in SupportedDataTypes
        /\ created)
        => /\ Len(img) = 1
           /\ img[1].bitpix = ClaimedTable[LastArray.dataType][1]
           /\ img[1].naxis = LastArray.ndims
           /\ img[1].naxes = LastArray.dims
    /\ (Wrote /\ LastArray.dataType \in SupportedDataTypes)
        => /\ payload[1].datatype = ClaimedTable[LastArray.dataType][2]
           /\ payload[1].nelements = Product(LastArray.dims)
           /\ payload[1].firstelem = 1

\* C9 witness: a signed-byte array of rank 3 was written.
C9_Witness ==
    /\ Wrote
    /\ LastArray.dataType = "NDInt8"
    /\ LastArray.ndims = 3
    /\ payload[1].nelements = 4

\* C10: every handle the library holds open is the one in pFits: at most one
\* handle is created and not released, and no openFile overwrites one.
C10_OnlyHandleIsHeld == openHandles \subseteq {pFits}

\* C11: the axis-size buffer openFile allocates is freed before openFile
\* returns on every path after its allocation, the unsupported sample type
\* included: none remains allocated after any call.
C11_NoAxisBufferLeft == naxesLive = 0

====
